---- MODULE Spec2Model ----
(***************************************************************************)
(* Taurus: reflection-driven binding of environment variables and command  *)
(* line flags into the fields of a nested configuration record, over the   *)
(* values a YAML document gave them.                                       *)
(*                                                                         *)
(* Strings are sequences of atoms.  Texts that are parsed (numbers,        *)
(* booleans) are sequences of single characters; keys and paths are        *)
(* sequences of name tokens and separators ("_" and "."), so that          *)
(* concatenation is \o and strings.TrimPrefix is removal of a prefix       *)
(* sequence.  An atom is one punctuation character, or a run of letters,   *)
(* digits and underscores that does not start with a digit unless it is    *)
(* that one digit; a name is written with the same atoms wherever it       *)
(* occurs.                                                                  *)
(***************************************************************************)
EXTENDS Integers, Sequences, FiniteSets, TLC

VARIABLES regs, yaml, env, shape, cfg, call, prev, nops, conv

vars == <<regs, yaml, env, shape, cfg, call, prev, nops, conv>>

(***************************************************************************)
(* Bounds of the exploration.                                              *)
(***************************************************************************)
\* registry mutations explored before the first binder call
MaxOps == 2
\* longest alias list kept for one canonical key
MaxAliases == 2
\* longest text handed to setField in the conversion specification
MaxTextLen == 3

(***************************************************************************)
(* Strings.                                                                *)
(***************************************************************************)
Digits == {"0", "1", "2", "3", "4", "5", "6", "7", "8", "9"}

DigitVal(c) ==
  CASE c = "0" -> 0 [] c = "1" -> 1 [] c = "2" -> 2 [] c = "3" -> 3
    [] c = "4" -> 4 [] c = "5" -> 5 [] c = "6" -> 6 [] c = "7" -> 7
    [] c = "8" -> 8 [] c = "9" -> 9

\* strings.ToUpper on one atom of a field name or tag
UpperAtom(a) ==
  CASE a = "Server" -> "SERVER" [] a = "Port" -> "PORT" [] a = "Host" -> "HOST"
    [] a = "Name" -> "NAME" [] a = "name" -> "NAME" [] a = "Debug" -> "DEBUG"
    [] a = "Hook" -> "HOOK" [] a = "token" -> "TOKEN" [] a = "meta" -> "META"
    [] a = "ID" -> "ID" [] a = "At" -> "AT" [] a = "Sec" -> "SEC"
    [] OTHER -> a

ToUpper(s) == [i \in 1..Len(s) |-> UpperAtom(s[i])]

\* strings.ToLower on one atom of a field name
LowerAtom(a) ==
  CASE a = "Server" -> "server" [] a = "Port" -> "port" [] a = "Host" -> "host"
    [] a = "Name" -> "name" [] a = "Debug" -> "debug" [] a = "Hook" -> "hook"
    [] a = "ID" -> "id" [] a = "At" -> "at" [] a = "Sec" -> "sec"
    [] OTHER -> a

ToLower(s) == [i \in 1..Len(s) |-> LowerAtom(s[i])]

HasPrefix(s, p) == Len(p) <= Len(s) /\ SubSeq(s, 1, Len(p)) = p

TrimPrefix(s, p) == IF HasPrefix(s, p) THEN SubSeq(s, Len(p) + 1, Len(s)) ELSE s

(***************************************************************************)
(* strconv: the parsers setField calls, on texts of fewer than ten         *)
(* characters: an integer of so few digits never leaves the range of a     *)
(* 64-bit parse, and only the syntax decides.                              *)
(***************************************************************************)
AllDigits(s) == \A i \in 1..Len(s) : s[i] \in Digits

RECURSIVE DecimalValue(_)
DecimalValue(s) ==
  IF s = <<>> THEN 0
  ELSE 10 * DecimalValue(SubSeq(s, 1, Len(s) - 1)) + DigitVal(s[Len(s)])

\* strconv.ParseUint(s, 10, 64): digits only, no sign, not empty
ParseUint(s) ==
  IF s # <<>> /\ AllDigits(s)
  THEN [ok |-> TRUE, val |-> DecimalValue(s)]
  ELSE [ok |-> FALSE, val |-> 0]

\* strconv.ParseInt(s, 10, 64): an optional sign, then ParseUint's digits
ParseInt(s) ==
  IF s = <<>> THEN [ok |-> FALSE, val |-> 0]
  ELSE LET neg == s[1] = "-"
           body == IF s[1] \in {"+", "-"} THEN Tail(s) ELSE s
           u == ParseUint(body)
       IN IF ~u.ok THEN [ok |-> FALSE, val |-> 0]
          ELSE [ok |-> TRUE, val |-> IF neg THEN 0 - u.val ELSE u.val]

\* the ASCII letters, for the comparisons strconv makes through lower()
Uppers == <<"A", "B", "C", "D", "E", "F", "G", "H", "I", "J", "K", "L", "M",
            "N", "O", "P", "Q", "R", "S", "T", "U", "V", "W", "X", "Y", "Z">>

Lowers == <<"a", "b", "c", "d", "e", "f", "g", "h", "i", "j", "k", "l", "m",
            "n", "o", "p", "q", "r", "s", "t", "u", "v", "w", "x", "y", "z">>

Lower(c) ==
  IF \E i \in 1..26 : Uppers[i] = c
  THEN Lowers[CHOOSE i \in 1..26 : Uppers[i] = c]
  ELSE c

LowerText(s) == [i \in 1..Len(s) |-> Lower(s[i])]

HexLetters == {"a", "b", "c", "d", "e", "f"}

HexVal(c) ==
  CASE c = "a" -> 10 [] c = "b" -> 11 [] c = "c" -> 12 [] c = "d" -> 13
    [] c = "e" -> 14 [] c = "f" -> 15 [] OTHER -> DigitVal(c)

\* the value of a run of digits in base 10 or 16
RECURSIVE BaseValue(_, _)
BaseValue(s, base) ==
  IF s = <<>> THEN 0
  ELSE base * BaseValue(SubSeq(s, 1, Len(s) - 1), base) + HexVal(s[Len(s)])

RECURSIVE Pow2(_)
Pow2(n) == IF n = 0 THEN 1 ELSE 2 * Pow2(n - 1)

RECURSIVE Pow10(_)
Pow10(n) == IF n = 0 THEN 1 ELSE 10 * Pow10(n - 1)

\* the number of digits of m > 0 in the base
RECURSIVE NumDigits(_, _)
NumDigits(m, base) == IF m < base THEN 1 ELSE 1 + NumDigits(m \div base, base)

\* A float64 or float32 value: NaN, an infinity, a zero, or the float of
\* prec bits nearest to mant * base^exp (base 10 from a decimal text, base 2
\* from a hexadecimal one), mant having no trailing zero in its base.
FloatNaN(prec) ==
  [class |-> "nan", neg |-> FALSE, mant |-> 0, base |-> 10, exp |-> 0, prec |-> prec]

FloatInf(neg, prec) ==
  [class |-> "inf", neg |-> neg, mant |-> 0, base |-> 10, exp |-> 0, prec |-> prec]

FloatZero(neg, prec) ==
  [class |-> "zero", neg |-> neg, mant |-> 0, base |-> 10, exp |-> 0, prec |-> prec]

RECURSIVE FloatNum(_, _, _, _, _)
FloatNum(neg, mant, base, exp, prec) ==
  IF mant = 0 THEN FloatZero(neg, prec)
  ELSE IF mant % base = 0 THEN FloatNum(neg, mant \div base, base, exp + 1, prec)
  ELSE [class |-> "finite", neg |-> neg, mant |-> mant, base |-> base,
        exp |-> exp, prec |-> prec]

\* the first nine decimal digits of a finite decimal value, and the power of
\* ten of its first digit
Lead9(v) == v.mant * Pow10(9 - NumDigits(v.mant, 10))

Order10(v) == v.exp + NumDigits(v.mant, 10) - 1

\* the power of two above a finite binary value: v < 2^Top2(v)
Top2(v) == v.exp + NumDigits(v.mant, 2)

\* strconv's special(): inf, infinity (signed or not) and nan, in any case
Signed(t) == t # <<>> /\ t[1] \in {"+", "-"}

Negative(t) == Signed(t) /\ t[1] = "-"

Unsigned(t) == IF Signed(t) THEN Tail(t) ELSE t

SpecialLower(t) ==
  IF Unsigned(t) \in {<<"i", "n", "f">>, <<"i", "n", "f", "i", "n", "i", "t", "y">>}
  THEN [ok |-> TRUE, val |-> FloatInf(Negative(t), 64)]
  ELSE IF t = <<"n", "a", "n">> THEN [ok |-> TRUE, val |-> FloatNaN(64)]
  ELSE [ok |-> FALSE, val |-> FloatZero(FALSE, 64)]

Special(s) == SpecialLower(LowerText(s))

\* strconv's underscoreOK on the lower-cased text t, x being the index of
\* the x of a base prefix (0 without one): an underscore stands after a
\* digit or the base prefix, and before a digit
UnderscoreOK(t, x) ==
  LET Dig(c) == c \in Digits \/ (x > 0 /\ c \in HexLetters)
  IN \A j \in 1..Len(t) :
       t[j] = "_" =>
         /\ j > 1 /\ (Dig(t[j - 1]) \/ j - 1 = x)
         /\ j < Len(t) /\ Dig(t[j + 1])

\* strconv's readFloat, the whole text to be consumed: a sign, a mantissa
\* of decimal digits (or, behind 0x, hexadecimal ones) with at most one
\* point and at least one digit, and an exponent e (behind 0x: p, and
\* required) of decimal digits with a sign of its own
HexPrefix(rest) == Len(rest) > 2 /\ rest[1] = "0" /\ rest[2] = "x"

IsDigit(hex, c) == c \in Digits \/ (hex /\ c \in HexLetters)

MantChar(hex, c) == IsDigit(hex, c) \/ c \in {"_", "."}

\* the digits of a text, its underscores and point left out
DigitsOf(hex, s) == SelectSeq(s, LAMBDA c : IsDigit(hex, c))

\* the length of the mantissa: up to the first character that is none of it
MantLen(hex, body) ==
  CHOOSE k \in 0..Len(body) :
    /\ \A i \in 1..k : MantChar(hex, body[i])
    /\ k = Len(body) \/ ~MantChar(hex, body[k + 1])

Points(mant) == {i \in 1..Len(mant) : mant[i] = "."}

\* the digits of the mantissa behind its point, counted
Fraction(hex, mant) ==
  IF Points(mant) = {} THEN 0
  ELSE Len(DigitsOf(hex, SubSeq(mant, (CHOOSE i \in Points(mant) : TRUE), Len(mant))))

\* the exponent part, behind its letter and its sign
ExpDigits(tail) == Unsigned(Tail(tail))

ExpOK(hex, tail) ==
  IF tail = <<>> THEN ~hex
  ELSE /\ tail[1] = (IF hex THEN "p" ELSE "e")
       /\ ExpDigits(tail) # <<>>
       /\ ExpDigits(tail)[1] \in Digits
       /\ \A i \in 1..Len(ExpDigits(tail)) : ExpDigits(tail)[i] \in Digits \cup {"_"}

ExpValue(tail) ==
  IF tail = <<>> THEN 0
  ELSE IF Negative(Tail(tail)) THEN 0 - DecimalValue(DigitsOf(FALSE, ExpDigits(tail)))
  ELSE DecimalValue(DigitsOf(FALSE, ExpDigits(tail)))

\* t: the text; x: the index of the x of its base prefix, or 0
ReadParts(t, x, mant, tail) ==
  [ok |-> /\ Cardinality(Points(mant)) <= 1
          /\ DigitsOf(x > 0, mant) # <<>>
          /\ ExpOK(x > 0, tail)
          /\ UnderscoreOK(t, x),
   neg |-> Negative(t),
   mant |-> BaseValue(DigitsOf(x > 0, mant), IF x > 0 THEN 16 ELSE 10),
   base |-> IF x > 0 THEN 2 ELSE 10,
   exp |-> ExpValue(tail)
           - (IF x > 0 THEN 4 * Fraction(TRUE, mant) ELSE Fraction(FALSE, mant))]

ReadBody(t, x, body) ==
  ReadParts(t, x, SubSeq(body, 1, MantLen(x > 0, body)),
            SubSeq(body, MantLen(x > 0, body) + 1, Len(body)))

ReadLower(t) ==
  IF HexPrefix(Unsigned(t))
  THEN ReadBody(t, IF Signed(t) THEN 3 ELSE 2, SubSeq(Unsigned(t), 3, Len(Unsigned(t))))
  ELSE ReadBody(t, 0, Unsigned(t))

ReadFloat(s) == ReadLower(LowerText(s))

\* a finite value beyond the largest float of the width rounds to infinity:
\* from 2^1024 - 2^970 (1.7976931348623158e308) on for 64 bits, from
\* 2^128 - 2^103 (3.4028235677973366e38) on for 32
FloatOverflows(v, prec) ==
  /\ v.class = "finite"
  /\ IF v.base = 10
     THEN IF prec = 64
          THEN Order10(v) > 308 \/ (Order10(v) = 308 /\ Lead9(v) > 179769313)
          ELSE Order10(v) > 38 \/ (Order10(v) = 38 /\ Lead9(v) > 340282356)
     ELSE IF prec = 64 THEN Top2(v) > 1024
          ELSE \/ Top2(v) > 128
               \/ /\ Top2(v) = 128
                  /\ NumDigits(v.mant, 2) >= 25
                  /\ v.mant >= Pow2(NumDigits(v.mant, 2)) - Pow2(NumDigits(v.mant, 2) - 25)

\* a finite value of at most half the smallest denormal rounds to zero: up
\* to 2^-1075 (2.4703282292062327e-324) for 64 bits, up to 2^-150
\* (7.006492321624085e-46) for 32
FloatVanishes(v, prec) ==
  /\ v.class = "finite"
  /\ IF v.base = 10
     THEN IF prec = 64
          THEN Order10(v) < 0 - 324 \/ (Order10(v) = 0 - 324 /\ Lead9(v) <= 247032822)
          ELSE Order10(v) < 0 - 46 \/ (Order10(v) = 0 - 46 /\ Lead9(v) <= 700649232)
     ELSE IF prec = 64
          THEN Top2(v) < 0 - 1074 \/ (Top2(v) = 0 - 1074 /\ v.mant = 1)
          ELSE Top2(v) < 0 - 149 \/ (Top2(v) = 0 - 149 /\ v.mant = 1)

\* strconv.ParseFloat(s, 64): a special value, else the float64 nearest to
\* the number read; a text that is no number is a syntax error, a number
\* that rounds to an infinity a range error, one that rounds to zero is zero
ParseFloat(s) ==
  LET sp == Special(s)
      r == ReadFloat(s)
      v == FloatNum(r.neg, r.mant, r.base, r.exp, 64)
  IN IF sp.ok THEN sp
     ELSE IF ~r.ok THEN [ok |-> FALSE, val |-> FloatZero(FALSE, 64)]
     ELSE IF FloatOverflows(v, 64) THEN [ok |-> FALSE, val |-> FloatInf(r.neg, 64)]
     ELSE IF FloatVanishes(v, 64) THEN [ok |-> TRUE, val |-> FloatZero(r.neg, 64)]
     ELSE [ok |-> TRUE, val |-> v]

\* strconv.ParseBool
ParseBool(s) ==
  IF s \in {<<"1">>, <<"t">>, <<"T">>, <<"T", "R", "U", "E">>,
            <<"t", "r", "u", "e">>, <<"T", "r", "u", "e">>}
  THEN [ok |-> TRUE, val |-> TRUE]
  ELSE IF s \in {<<"0">>, <<"f">>, <<"F">>, <<"F", "A", "L", "S", "E">>,
                 <<"f", "a", "l", "s", "e">>, <<"F", "a", "l", "s", "e">>}
  THEN [ok |-> TRUE, val |-> FALSE]
  ELSE [ok |-> FALSE, val |-> FALSE]

\* reflect.Value.SetInt: the 64-bit value is stored through a conversion to
\* the field's own width, which wraps (two's complement); a value of fewer
\* than ten digits fits 32 and 64 bits unchanged
SetInt(bits, x) ==
  IF bits >= 32 THEN x
  ELSE ((x + Pow2(bits - 1)) % Pow2(bits)) - Pow2(bits - 1)

\* reflect.Value.SetUint: likewise, modulo 2^bits
SetUint(bits, x) == IF bits >= 32 THEN x ELSE x % Pow2(bits)

\* reflect.Value.SetFloat: a float64 field takes the value as it is, a
\* float32 field its conversion float32(x), which rounds, to an infinity or
\* to zero beyond the range of 32 bits
SetFloat(bits, v) ==
  IF bits = 64 THEN v
  ELSE IF FloatOverflows(v, 32) THEN FloatInf(v.neg, 32)
  ELSE IF FloatVanishes(v, 32) THEN FloatZero(v.neg, 32)
  ELSE [v EXCEPT !.prec = 32]

(***************************************************************************)
(* Static types (reflect.Type) and struct fields (reflect.StructField).    *)
(* native: the pointer to the type implements encoding.TextUnmarshaler.    *)
(***************************************************************************)
Scalar(name, kind, bits) ==
  [name |-> name, kind |-> kind, bits |-> bits, native |-> FALSE, fields |-> <<>>]

Struct(name, fields) ==
  [name |-> name, kind |-> "struct", bits |-> 0, native |-> FALSE, fields |-> fields]

Field(name, tag, exported, type) ==
  [name |-> name, tag |-> tag, exported |-> exported, type |-> type]

TString == Scalar("string", "string", 0)
TInt == Scalar("int", "int", 64)
TInt8 == Scalar("int8", "int", 8)
TInt16 == Scalar("int16", "int", 16)
TInt32 == Scalar("int32", "int", 32)
TInt64 == Scalar("int64", "int", 64)
TUint == Scalar("uint", "uint", 64)
TUint8 == Scalar("uint8", "uint", 8)
TUint16 == Scalar("uint16", "uint", 16)
TUint32 == Scalar("uint32", "uint", 32)
TUint64 == Scalar("uint64", "uint", 64)
TFloat32 == Scalar("float32", "float", 32)
TFloat64 == Scalar("float64", "float", 64)
TBool == Scalar("bool", "bool", 0)
TFunc == Scalar("func()", "func", 0)
\* type Level string, with func (l *Level) UnmarshalText([]byte) error
TLevel == [name |-> "Level", kind |-> "string", bits |-> 0, native |-> TRUE,
           fields |-> <<>>]
\* type Stamp struct { Sec int }
TStamp == Struct("Stamp", <<Field(<<"Sec">>, <<>>, TRUE, TInt)>>)

\* struct { Server struct { Port int; Host string } }
ConfigT ==
  Struct("Config",
    <<Field(<<"Server">>, <<>>, TRUE,
        Struct("Server", <<Field(<<"Port">>, <<>>, TRUE, TInt),
                           Field(<<"Host">>, <<>>, TRUE, TString)>>))>>)

\* struct { Name string `yaml:"name"`; token string;
\*          Server struct { Port int8; Hook func(); Host Level }; Debug bool }
AppT ==
  Struct("App",
    <<Field(<<"Name">>, <<"name">>, TRUE, TString),
      Field(<<"token">>, <<>>, FALSE, TString),
      Field(<<"Server">>, <<>>, TRUE,
        Struct("AppServer", <<Field(<<"Port">>, <<>>, TRUE, TInt8),
                              Field(<<"Hook">>, <<>>, TRUE, TFunc),
                              Field(<<"Host">>, <<>>, TRUE, TLevel)>>)),
      Field(<<"Debug">>, <<>>, TRUE, TBool)>>)

\* struct { Name string; meta struct { ID int }; Debug bool }
HiddenT ==
  Struct("Hidden",
    <<Field(<<"Name">>, <<>>, TRUE, TString),
      Field(<<"meta">>, <<>>, FALSE, Struct("meta", <<Field(<<"ID">>, <<>>, TRUE, TInt)>>)),
      Field(<<"Debug">>, <<>>, TRUE, TBool)>>)

\* struct { At Stamp; Name string }
StampedT ==
  Struct("Stamped",
    <<Field(<<"At">>, <<>>, TRUE, TStamp),
      Field(<<"Name">>, <<>>, TRUE, TString)>>)

\* the static type behind the cfg pointer of a call
ShapeType(s) ==
  CASE s = "Config" -> ConfigT [] s = "App" -> AppT [] s = "Hidden" -> HiddenT
    [] s = "Stamped" -> StampedT [] s = "Int" -> TInt

\* the value a record holds before any binder runs: one per kind, a struct
\* being the sequence of its fields' values
RECURSIVE Default(_)
Default(ty) ==
  CASE ty.kind = "struct" -> [i \in 1..Len(ty.fields) |-> Default(ty.fields[i].type)]
    [] ty.kind = "string" -> <<"default">>
    [] ty.kind \in {"int", "uint"} -> 5
    [] ty.kind = "float" -> FloatNum(FALSE, 5, 10, 0, ty.bits)
    [] ty.kind = "bool" -> FALSE
    [] OTHER -> <<"nil">>

(***************************************************************************)
(* The registry of one Taurus value, and the two values of a run: the      *)
(* package's default instance (var t, set by init) and one made by New().  *)
(***************************************************************************)
Insts == {"default", "inst"}

\* a *Taurus argument: one of the instances, or nil
TaurusArgs == Insts \cup {"nil"}

AliasKeys == {<<"HOST">>, <<"SERVER", "_", "HOST">>}

AliasNames == {<<"SERVICE", "_", "HOST">>, <<"ALT", "_", "HOST">>}

FlagPaths == {<<"Server", ".", "Port">>, <<"Server", ".", "Host">>}

\* *pflag.Flag: the string its Value renders, and its Changed bit
Flag(value, changed) == [bound |-> TRUE, value |-> value, changed |-> changed]

NoFlag == [bound |-> FALSE, value |-> <<>>, changed |-> FALSE]

FlagPool == {Flag(<<"9", "0", "9", "0">>, FALSE), Flag(<<"9", "0", "9", "0">>, TRUE),
             Flag(<<"a", "b", "c">>, TRUE)}

\* the types a custom converter is registered for
CustomTypes == {"Level", "Stamp"}

New ==
  [envPrefix |-> <<>>,
   expandEnv |-> FALSE,
   envAliases |-> [k \in AliasKeys |-> <<>>],
   flags |-> [p \in FlagPaths |-> NoFlag],
   customMarshalers |-> {},
   customUnmarshalers |-> {}]

\* a Go map read: the zero value for a key that is not in the map
AliasesOf(r, k) == IF k \in DOMAIN r.envAliases THEN r.envAliases[k] ELSE <<>>

FlagOf(r, p) == IF p \in DOMAIN r.flags THEN r.flags[p] ELSE NoFlag

\* os.LookupEnv
LookupEnv(e, k) ==
  IF k \in DOMAIN e THEN [exists |-> TRUE, val |-> e[k], key |-> k]
  ELSE [exists |-> FALSE, val |-> <<>>, key |-> k]

(***************************************************************************)
(* Errors.  A panic ends the program.                                      *)
(***************************************************************************)
NoErr == [kind |-> "nil", key |-> <<>>, cause |-> ""]

Err(key, cause) == [kind |-> "error", key |-> key, cause |-> cause]

Panic == [kind |-> "panic", key |-> <<>>, cause |-> "panic"]

(***************************************************************************)
(* The converters a caller supplies: the function registered through       *)
(* RegisterUnmarshaler for a type, and the type's own UnmarshalText.  Both *)
(* refuse the text abc; each marks what it stores, so the two and the      *)
(* built-in conversion are told apart.                                     *)
(***************************************************************************)
CustomUnmarshal(ty, old, text) ==
  IF ty.name = "Stamp"
  THEN LET n == ParseInt(text)
       IN [ok |-> n.ok, val |-> IF n.ok THEN <<n.val>> ELSE old]
  ELSE IF text = <<"a", "b", "c">> THEN [ok |-> FALSE, val |-> old]
  ELSE [ok |-> TRUE, val |-> <<"custom", ":">> \o text]

UnmarshalText(ty, old, text) ==
  IF text = <<"a", "b", "c">> THEN [ok |-> FALSE, val |-> old]
  ELSE [ok |-> TRUE, val |-> <<"text", ":">> \o text]

(***************************************************************************)
(* Taurus.setField                                                         *)
(***************************************************************************)
Set(val) == [ok |-> TRUE, val |-> val, cause |-> ""]

Fail(old, cause) == [ok |-> FALSE, val |-> old, cause |-> cause]

setField(r, ty, old, value) ==
  IF ty.name \in r.customUnmarshalers
  THEN LET c == CustomUnmarshal(ty, old, value)
       IN IF c.ok THEN Set(c.val) ELSE Fail(c.val, "failed to unmarshal custom field")
  ELSE IF ty.native
  THEN LET u == UnmarshalText(ty, old, value)
       IN IF u.ok THEN Set(u.val) ELSE Fail(u.val, "failed to unmarshal field")
  ELSE CASE ty.kind = "string" -> Set(value)
         [] ty.kind = "int" ->
              LET n == ParseInt(value)
              IN IF n.ok THEN Set(SetInt(ty.bits, n.val)) ELSE Fail(old, "invalid int")
         [] ty.kind = "uint" ->
              LET n == ParseUint(value)
              IN IF n.ok THEN Set(SetUint(ty.bits, n.val)) ELSE Fail(old, "invalid uint")
         [] ty.kind = "float" ->
              LET n == ParseFloat(value)
              IN IF n.ok THEN Set(SetFloat(ty.bits, n.val)) ELSE Fail(old, "invalid float")
         [] ty.kind = "bool" ->
              LET b == ParseBool(value)
              IN IF b.ok THEN Set(b.val) ELSE Fail(old, "invalid bool")
         [] OTHER -> Fail(old, "unsupported field type")

(***************************************************************************)
(* Taurus.LoadEnv                                                          *)
(***************************************************************************)
\* the `yaml` tag or the field name, upper-cased, behind the prefix
EnvKey(prefix, field) ==
  LET tag == IF field.tag = <<>> THEN field.name ELSE field.tag
      envKey == ToUpper(tag)
  IN IF prefix # <<>> THEN prefix \o <<"_">> \o envKey ELSE envKey

\* an alias table read with the whole key, the prefix not stripped
AliasKeyUntrimmed(r, envKey) == envKey

\* the key the alias table is read with
AliasKey(r, envKey) == TrimPrefix(envKey, r.envPrefix \o <<"_">>)

\* the loop over the aliases of a key, from the j-th on: the first one set
RECURSIVE AliasScan(_, _, _, _)
AliasScan(e, r, aliases, j) ==
  IF j > Len(aliases) THEN [exists |-> FALSE, val |-> <<>>, key |-> <<>>]
  ELSE LET hit == LookupEnv(e, r.envPrefix \o <<"_">> \o aliases[j])
       IN IF hit.exists THEN hit ELSE AliasScan(e, r, aliases, j + 1)

\* the value found for a leaf: its own key, else its aliases in order
ResolveEnv(e, r, envKey) ==
  LET direct == LookupEnv(e, envKey)
  IN IF direct.exists THEN direct
     ELSE LET found == AliasScan(e, r, AliasesOf(r, AliasKey(r, envKey)), 1)
          IN IF found.exists THEN found ELSE direct

\* the receiver of the recursive call on a struct field: the call is to the
\* package-level LoadEnv, which forwards to the default instance
NestedEnvReceiver(self) == "default"

\* a traversal that drops the error of a recursive call and goes on
PropagatesNever(err) == FALSE

\* `if err != nil { return err }` after a recursive call
Propagates(err) == err.kind # "nil"

\* fields i.. of the struct value val of type ty, for receiver self
RECURSIVE LoadEnvFrom(_, _, _, _, _, _, _)
LoadEnvFrom(rg, e, self, prefix, ty, val, i) ==
  IF i > Len(ty.fields) THEN [val |-> val, err |-> NoErr]
  ELSE
    LET field == ty.fields[i]
        envKey == EnvKey(prefix, field)
        next == LoadEnvFrom(rg, e, self, prefix, ty, val, i + 1)
    IN IF field.type.kind = "struct"
       THEN IF ~field.exported
            THEN \* fieldValue.Addr().Interface() on an unexported field
                 [val |-> val, err |-> Panic]
            ELSE LET sub == LoadEnvFrom(rg, e, NestedEnvReceiver(self), envKey,
                                        field.type, val[i], 1)
                     val2 == [val EXCEPT ![i] = sub.val]
                 IN IF Propagates(sub.err) THEN [val |-> val2, err |-> sub.err]
                    ELSE LoadEnvFrom(rg, e, self, prefix, ty, val2, i + 1)
       ELSE IF ~field.exported THEN next
       ELSE LET found == ResolveEnv(e, rg[self], envKey)
            IN IF ~found.exists THEN next
               ELSE LET s == setField(rg[self], field.type, val[i], found.val)
                        val2 == [val EXCEPT ![i] = s.val]
                    IN IF ~s.ok THEN [val |-> val2, err |-> Err(found.key, s.cause)]
                       ELSE LoadEnvFrom(rg, e, self, prefix, ty, val2, i + 1)

LoadEnvOf(rg, e, self, prefix, ty, val) ==
  IF ty.kind # "struct"
  THEN [val |-> val, err |-> Err(<<>>, "cfg must be a pointer to a struct")]
  ELSE LoadEnvFrom(rg, e, self, prefix, ty, val, 1)

(***************************************************************************)
(* Taurus.LoadFlags and loadFlags                                          *)
(***************************************************************************)
FieldPath(prefix, field) ==
  IF prefix # <<>> THEN prefix \o <<".">> \o field.name ELSE field.name

\* a loadFlags that applies every bound flag, set by the user or not
FlagAppliesUnset(fl) == fl.bound

\* `if !exists || !fl.Changed { continue }`
FlagApplies(fl) == fl.bound /\ fl.changed

RECURSIVE loadFlagsFrom(_, _, _, _, _, _)
loadFlagsFrom(rg, self, prefix, ty, val, i) ==
  IF i > Len(ty.fields) THEN [val |-> val, err |-> NoErr]
  ELSE
    LET field == ty.fields[i]
        fieldPath == FieldPath(prefix, field)
        next == loadFlagsFrom(rg, self, prefix, ty, val, i + 1)
    IN IF field.type.kind = "struct"
       THEN IF ~field.exported
            THEN [val |-> val, err |-> Panic]
            ELSE LET sub == loadFlagsFrom(rg, self, fieldPath, field.type, val[i], 1)
                     val2 == [val EXCEPT ![i] = sub.val]
                 IN IF Propagates(sub.err) THEN [val |-> val2, err |-> sub.err]
                    ELSE loadFlagsFrom(rg, self, prefix, ty, val2, i + 1)
       ELSE IF ~field.exported THEN next
       ELSE LET fl == FlagOf(rg[self], fieldPath)
            IN IF ~FlagApplies(fl) THEN next
               ELSE LET s == setField(rg[self], field.type, val[i], fl.value)
                        val2 == [val EXCEPT ![i] = s.val]
                    IN IF ~s.ok THEN [val |-> val2, err |-> Err(fieldPath, s.cause)]
                       ELSE loadFlagsFrom(rg, self, prefix, ty, val2, i + 1)

LoadFlagsOf(rg, self, ty, val) ==
  IF ty.kind # "struct"
  THEN [val |-> val, err |-> Err(<<>>, "cfg must be a pointer to a struct")]
  ELSE loadFlagsFrom(rg, self, <<>>, ty, val, 1)

(***************************************************************************)
(* Taurus.Load and LoadFile.  A document is the sequence of its scalars,   *)
(* each under the path of mapping keys that leads to it (the empty path    *)
(* for a document that is one scalar), double-quoted or plain; or it is    *)
(* text the YAML parser rejects.                                           *)
(***************************************************************************)
Entry(path, text, quoted) == [path |-> path, text |-> text, quoted |-> quoted]

Doc(entries) == [malformed |-> FALSE, entries |-> entries]

Malformed == [malformed |-> TRUE, entries |-> <<>>]

\* os.Getenv: the empty string for a variable that is not set
Getenv(e, name) == IF name \in DOMAIN e THEN e[name] ELSE <<>>

\* os: isShellSpecialVar and isAlphaNum, on the atoms of a text
ShellSpecial == {"*", "#", "$", "@", "!", "?", "-"} \cup Digits

\* the atoms that are one character other than a letter, a digit or an
\* underscore
Punctuation == {"$", "{", "}", ".", ":", "-", "+", "*", "#", "@", "!", "?"}

AlphaNum(a) == a \notin Punctuation

\* os.getShellName on the text behind a dollar sign: the name and the
\* number of atoms it takes
ShellName(s) ==
  IF s[1] = "{"
  THEN IF Len(s) > 2 /\ s[2] \in ShellSpecial /\ s[3] = "}"
       THEN [name |-> <<s[2]>>, w |-> 3]
       ELSE LET closing == {i \in 2..Len(s) : s[i] = "}"}
                i == CHOOSE c \in closing : \A d \in closing : c <= d
            IN IF closing = {} THEN [name |-> <<>>, w |-> 1]
               ELSE IF i = 2 THEN [name |-> <<>>, w |-> 2]
               ELSE [name |-> SubSeq(s, 2, i - 1), w |-> i]
  ELSE IF s[1] \in ShellSpecial THEN [name |-> <<s[1]>>, w |-> 1]
  ELSE LET k == CHOOSE n \in 0..Len(s) :
                  /\ \A i \in 1..n : AlphaNum(s[i])
                  /\ n = Len(s) \/ ~AlphaNum(s[n + 1])
       IN [name |-> SubSeq(s, 1, k), w |-> k]

\* os.Expand with os.Getenv, from the j-th atom of s on
RECURSIVE ExpandFrom(_, _, _)
ExpandFrom(e, s, j) ==
  IF j > Len(s) THEN <<>>
  ELSE IF s[j] = "$" /\ j < Len(s)
  THEN LET n == ShellName(SubSeq(s, j + 1, Len(s)))
           put == IF n.name # <<>> THEN Getenv(e, n.name)
                  ELSE IF n.w > 0 THEN <<>> ELSE <<"$">>
       IN put \o ExpandFrom(e, s, j + 1 + n.w)
  ELSE <<s[j]>> \o ExpandFrom(e, s, j + 1)

\* os.ExpandEnv on the document text: its keys hold no dollar sign, so the
\* scalars are what it rewrites
ExpandEnv(e, doc) ==
  [doc EXCEPT !.entries =
     [i \in 1..Len(doc.entries) |->
        [doc.entries[i] EXCEPT !.text = ExpandFrom(e, doc.entries[i].text, 1)]]]

\* the mapping key the YAML decoder reads a field from: the `yaml` tag,
\* else the field name in lower case
YamlKey(field) == IF field.tag = <<>> THEN ToLower(field.name) ELSE field.tag

HasEntry(doc, path) == \E i \in 1..Len(doc.entries) : doc.entries[i].path = path

EntryAt(doc, path) ==
  doc.entries[CHOOSE i \in 1..Len(doc.entries) : doc.entries[i].path = path]

\* the document holds a mapping at the path
HasBelow(doc, path) ==
  \E i \in 1..Len(doc.entries) :
    /\ Len(doc.entries[i].path) > Len(path)
    /\ SubSeq(doc.entries[i].path, 1, Len(path)) = path

\* a scalar that is of the field's kind in YAML: a quoted string for a
\* string, a plain decimal integer within the field's width for an integer,
\* plain true or false for a bool
ScalarFits(ty, entry) ==
  CASE ty.kind = "string" -> entry.quoted
    [] ty.kind = "int" ->
         /\ ~entry.quoted
         /\ entry.text # <<>> /\ entry.text[1] # "+"
         /\ ParseInt(entry.text).ok
         /\ SetInt(ty.bits, ParseInt(entry.text).val) = ParseInt(entry.text).val
    [] ty.kind = "uint" ->
         /\ ~entry.quoted
         /\ ParseUint(entry.text).ok
         /\ SetUint(ty.bits, ParseUint(entry.text).val) = ParseUint(entry.text).val
    [] ty.kind = "bool" ->
         ~entry.quoted /\ entry.text \in {<<"t", "r", "u", "e">>, <<"f", "a", "l", "s", "e">>}
    [] OTHER -> FALSE

\* The documents explored are those the decoder takes without an error:
\* every scalar is of its field's kind, or goes to a converter that accepts
\* it (a registered one is handed the plain scalar as written), and a
\* mapping goes to a struct that has no registered converter.
RECURSIVE Decodable(_, _, _, _)
Decodable(ym, doc, path, ty) ==
  IF HasEntry(doc, path)
  THEN LET entry == EntryAt(doc, path)
       IN IF ty.name \in ym.unmarshalers
          THEN ~entry.quoted /\ CustomUnmarshal(ty, <<>>, entry.text).ok
          ELSE IF ty.native THEN UnmarshalText(ty, <<>>, entry.text).ok
          ELSE ScalarFits(ty, entry)
  ELSE IF ty.kind = "struct"
  THEN /\ HasBelow(doc, path) => ty.name \notin ym.unmarshalers
       /\ \A i \in 1..Len(ty.fields) :
            ty.fields[i].exported =>
              Decodable(ym, doc, path \o <<YamlKey(ty.fields[i])>>, ty.fields[i].type)
  ELSE ~HasBelow(doc, path)

\* a scalar of the field's kind, decoded
YamlScalar(ty, old, entry) ==
  CASE ty.kind = "string" -> entry.text
    [] ty.kind = "int" -> ParseInt(entry.text).val
    [] ty.kind = "uint" -> ParseUint(entry.text).val
    [] ty.kind = "bool" -> entry.text = <<"t", "r", "u", "e">>
    [] OTHER -> old

\* yaml.Unmarshal into the value old of type ty, of the part of the
\* document at the path: the converter registered with the YAML package for
\* the type (by whichever instance), else the type's UnmarshalText, else
\* field by field for a struct, exported fields only, and by kind for a
\* scalar; what the document does not name is left as it was
RECURSIVE Decode(_, _, _, _, _)
Decode(ym, doc, path, ty, old) ==
  IF HasEntry(doc, path) /\ ty.name \in ym.unmarshalers
  THEN CustomUnmarshal(ty, old, EntryAt(doc, path).text).val
  ELSE IF HasEntry(doc, path) /\ ty.native
  THEN UnmarshalText(ty, old, EntryAt(doc, path).text).val
  ELSE IF ty.kind = "struct"
  THEN [i \in 1..Len(ty.fields) |->
          IF ty.fields[i].exported
          THEN Decode(ym, doc, path \o <<YamlKey(ty.fields[i])>>, ty.fields[i].type, old[i])
          ELSE old[i]]
  ELSE IF HasEntry(doc, path) THEN YamlScalar(ty, old, EntryAt(doc, path))
  ELSE old

\* Taurus.Load on the document text: expanded first when the receiver's
\* expandEnv is set; a document the parser rejects changes nothing
LoadData(rg, e, self, doc) == IF rg[self].expandEnv THEN ExpandEnv(e, doc) ELSE doc

LoadOf(rg, ym, e, self, doc, ty, val) ==
  LET data == LoadData(rg, e, self, doc)
  IN IF data.malformed
     THEN [val |-> val, err |-> Err(<<>>, "failed to unmarshal config data")]
     ELSE [val |-> Decode(ym, data, <<>>, ty, val), err |-> NoErr]

\* os.ReadFile: the file system has a file at the path, or has none
File(doc) == [exists |-> TRUE, data |-> doc]

NoFile == [exists |-> FALSE, data |-> Malformed]

\* Taurus.LoadFile
LoadFileOf(rg, ym, e, self, file, ty, val) ==
  IF ~file.exists THEN [val |-> val, err |-> Err(<<>>, "failed to read config file")]
  ELSE LoadOf(rg, ym, e, self, file.data, ty, val)

\* server:
\*   port: 80
\*   host: "${APP_SERVICE_HOST}"
DocConfig ==
  Doc(<<Entry(<< <<"server">>, <<"port">> >>, <<"8", "0">>, FALSE),
        Entry(<< <<"server">>, <<"host">> >>,
              <<"$", "{", "APP", "_", "SERVICE", "_", "HOST", "}">>, TRUE)>>)

\* name: "$APP_NAME.yaml"
\* server:
\*   port: 12
\*   host: info
\* debug: true
DocApp ==
  Doc(<<Entry(<< <<"name">> >>, <<"$", "APP", "_", "NAME", ".", "yaml">>, TRUE),
        Entry(<< <<"server">>, <<"port">> >>, <<"1", "2">>, FALSE),
        Entry(<< <<"server">>, <<"host">> >>, <<"info">>, FALSE),
        Entry(<< <<"debug">> >>, <<"t", "r", "u", "e">>, FALSE)>>)

\* name: "hidden"
\* debug: true
DocHidden ==
  Doc(<<Entry(<< <<"name">> >>, <<"hidden">>, TRUE),
        Entry(<< <<"debug">> >>, <<"t", "r", "u", "e">>, FALSE)>>)

\* at: 42
\* name: "stamped"
DocStampScalar ==
  Doc(<<Entry(<< <<"at">> >>, <<"4", "2">>, FALSE),
        Entry(<< <<"name">> >>, <<"stamped">>, TRUE)>>)

\* at:
\*   sec: 3
\* name: "stamped"
DocStampMapping ==
  Doc(<<Entry(<< <<"at">>, <<"sec">> >>, <<"3">>, FALSE),
        Entry(<< <<"name">> >>, <<"stamped">>, TRUE)>>)

\* 80
DocInt == Doc(<<Entry(<<>>, <<"8", "0">>, FALSE)>>)

\* the documents written for a record type, and one the parser rejects
DocsOf(s) ==
  {Malformed} \cup
  CASE s = "Config" -> {DocConfig} [] s = "App" -> {DocApp}
    [] s = "Hidden" -> {DocHidden} [] s = "Stamped" -> {DocStampScalar, DocStampMapping}
    [] s = "Int" -> {DocInt}

\* the file at the path given to LoadFile: one of those documents, or none
FilesOf(s) == {NoFile} \cup {File(d) : d \in DocsOf(s)}

(***************************************************************************)
(* The runs explored: a record type with the process environment it is     *)
(* bound from.                                                             *)
(***************************************************************************)
AppPrefix == <<"APP">>

Prefixes == {<<>>, AppPrefix}

EnvC6 ==
  (<<"APP", "_", "SERVER", "_", "PORT">> :> <<"8", "0", "8", "0">>)
  @@ (<<"APP", "_", "SERVICE", "_", "HOST">> :> <<"example", ".", "com">>)

EnvPrimary ==
  (<<"APP", "_", "SERVER", "_", "PORT">> :> <<"8", "0", "8", "0">>)
  @@ (<<"APP", "_", "SERVER", "_", "HOST">> :> <<"primary", ".", "host">>)
  @@ (<<"APP", "_", "SERVICE", "_", "HOST">> :> <<"example", ".", "com">>)
  @@ (<<"APP", "_", "ALT", "_", "HOST">> :> <<"alt", ".", "host">>)

EnvAliases ==
  (<<"APP", "_", "SERVICE", "_", "HOST">> :> <<"example", ".", "com">>)
  @@ (<<"APP", "_", "ALT", "_", "HOST">> :> <<"alt", ".", "host">>)

EnvBare ==
  (<<"SERVER", "_", "PORT">> :> <<"8", "0", "8", "0">>)
  @@ (<<"_", "ALT", "_", "HOST">> :> <<"alt", ".", "host">>)

EnvApp ==
  (<<"APP", "_", "NAME">> :> <<"taurus">>)
  @@ (<<"APP", "_", "TOKEN">> :> <<"secret">>)
  @@ (<<"APP", "_", "SERVER", "_", "PORT">> :> <<"3", "0", "0">>)
  @@ (<<"APP", "_", "SERVER", "_", "HOST">> :> <<"debug">>)
  @@ (<<"APP", "_", "DEBUG">> :> <<"t", "r", "u", "e">>)

EnvHook ==
  (<<"APP", "_", "NAME">> :> <<"taurus">>)
  @@ (<<"APP", "_", "SERVER", "_", "PORT">> :> <<"1", "2">>)
  @@ (<<"APP", "_", "SERVER", "_", "HOOK">> :> <<"x">>)
  @@ (<<"APP", "_", "SERVER", "_", "HOST">> :> <<"debug">>)
  @@ (<<"APP", "_", "DEBUG">> :> <<"t", "r", "u", "e">>)

EnvBadPort ==
  (<<"APP", "_", "NAME">> :> <<"taurus">>)
  @@ (<<"APP", "_", "SERVER", "_", "PORT">> :> <<"a", "b", "c">>)
  @@ (<<"APP", "_", "SERVER", "_", "HOST">> :> <<"debug">>)
  @@ (<<"APP", "_", "DEBUG">> :> <<"t", "r", "u", "e">>)

EnvBadLevel ==
  (<<"APP", "_", "NAME">> :> <<"taurus">>)
  @@ (<<"APP", "_", "SERVER", "_", "PORT">> :> <<"1", "2">>)
  @@ (<<"APP", "_", "SERVER", "_", "HOST">> :> <<"a", "b", "c">>)
  @@ (<<"APP", "_", "DEBUG">> :> <<"t", "r", "u", "e">>)

EnvHidden ==
  (<<"APP", "_", "NAME">> :> <<"taurus">>)
  @@ (<<"APP", "_", "META", "_", "ID">> :> <<"7">>)
  @@ (<<"APP", "_", "DEBUG">> :> <<"t", "r", "u", "e">>)

EnvStamped ==
  (<<"APP", "_", "AT">> :> <<"4", "2">>)
  @@ (<<"APP", "_", "AT", "_", "SEC">> :> <<"7">>)
  @@ (<<"APP", "_", "NAME">> :> <<"taurus">>)

Scenarios ==
  {<<"Config", EnvC6>>, <<"Config", EnvPrimary>>, <<"Config", EnvAliases>>,
   <<"Config", EnvBare>>, <<"App", EnvApp>>, <<"App", EnvHook>>,
   <<"App", EnvBadPort>>, <<"App", EnvBadLevel>>, <<"Hidden", EnvHidden>>,
   <<"Stamped", EnvStamped>>, <<"Int", EnvC6>>}

(***************************************************************************)
(* State.  regs: the registry of each instance; yaml: the converters       *)
(* mirrored into the document parser; env: the process environment;        *)
(* shape, cfg: the caller's record, its type and its value; call, prev:    *)
(* the last two binder calls (or the registration that panicked), with the *)
(* record as it was before each; nops: the registry mutations made; conv:  *)
(* one setField call on a field of its own (the conversion specification). *)
(***************************************************************************)
NoCall(pre) ==
  [op |-> "none", self |-> "none", prefix |-> <<>>, type |-> "", err |-> NoErr,
   pre |-> pre]

NoConv == [type |-> TString, text |-> <<>>, done |-> FALSE, ok |-> FALSE,
           val |-> <<>>, cause |-> ""]

Init ==
  /\ regs = [i \in Insts |-> New]
  /\ yaml = [marshalers |-> {}, unmarshalers |-> {}]
  /\ \E sc \in Scenarios :
       /\ shape = sc[1]
       /\ env = sc[2]
       /\ cfg = Default(ShapeType(sc[1]))
       /\ call = NoCall(Default(ShapeType(sc[1])))
       /\ prev = NoCall(Default(ShapeType(sc[1])))
  /\ nops = 0
  /\ conv = NoConv

Crashed == call.err.kind = "panic"

\* the registry is set up before the first binder call
CanSetUp == call.op = "none" /\ nops < MaxOps

SetUp == /\ nops' = nops + 1
         /\ UNCHANGED <<env, shape, cfg, call, prev, conv>>

SetEnvPrefix(self, prefix) ==
  /\ CanSetUp
  /\ regs' = [regs EXCEPT ![self].envPrefix = prefix]
  /\ UNCHANGED yaml
  /\ SetUp

BindEnvAlias(self, fieldPath, aliases) ==
  /\ CanSetUp
  /\ Len(regs[self].envAliases[fieldPath]) + Len(aliases) <= MaxAliases
  /\ regs' = [regs EXCEPT ![self].envAliases[fieldPath] = @ \o aliases]
  /\ UNCHANGED yaml
  /\ SetUp

SetExpandEnv(self, expand) ==
  /\ CanSetUp
  /\ regs' = [regs EXCEPT ![self].expandEnv = expand]
  /\ UNCHANGED yaml
  /\ SetUp

BindFlag(self, fieldPath, flag) ==
  /\ CanSetUp
  /\ regs' = [regs EXCEPT ![self].flags[fieldPath] = flag]
  /\ UNCHANGED yaml
  /\ SetUp

\* t.customUnmarshalers[...] = ... on the *Taurus given: a nil t is
\* dereferenced, and the program panics before anything is registered
RegisterUnmarshaler(t, T) ==
  /\ CanSetUp
  /\ IF t = "nil"
     THEN /\ call' = [op |-> "RegisterUnmarshaler", self |-> t, prefix |-> <<>>,
                      type |-> T, err |-> Panic, pre |-> cfg]
          /\ nops' = nops + 1
          /\ UNCHANGED <<regs, yaml, env, shape, cfg, prev, conv>>
     ELSE /\ regs' = [regs EXCEPT ![t].customUnmarshalers = @ \cup {T}]
          /\ yaml' = [yaml EXCEPT !.unmarshalers = @ \cup {T}]
          /\ SetUp

RegisterMarshaler(t, T) ==
  /\ CanSetUp
  /\ IF t = "nil"
     THEN /\ call' = [op |-> "RegisterMarshaler", self |-> t, prefix |-> <<>>,
                      type |-> T, err |-> Panic, pre |-> cfg]
          /\ nops' = nops + 1
          /\ UNCHANGED <<regs, yaml, env, shape, cfg, prev, conv>>
     ELSE /\ regs' = [regs EXCEPT ![t].customMarshalers = @ \cup {T}]
          /\ yaml' = [yaml EXCEPT !.marshalers = @ \cup {T}]
          /\ SetUp

\* the calls explored on the record: Load, LoadFile, LoadEnv, LoadFlags, or
\* LoadEnv and then LoadFlags (the environment first, the flags over it);
\* none after a panic
Load(self, doc) ==
  /\ ~Crashed
  /\ call.op = "none"
  /\ LET data == LoadData(regs, env, self, doc)
     IN data.malformed \/ Decodable(yaml, data, <<>>, ShapeType(shape))
  /\ LET r == LoadOf(regs, yaml, env, self, doc, ShapeType(shape), cfg)
     IN /\ cfg' = r.val
        /\ call' = [op |-> "Load", self |-> self, prefix |-> <<>>,
                    type |-> "", err |-> r.err, pre |-> cfg]
  /\ prev' = call
  /\ UNCHANGED <<regs, yaml, env, shape, nops, conv>>

LoadFile(self, file) ==
  /\ ~Crashed
  /\ call.op = "none"
  /\ file.exists =>
       LET data == LoadData(regs, env, self, file.data)
       IN data.malformed \/ Decodable(yaml, data, <<>>, ShapeType(shape))
  /\ LET r == LoadFileOf(regs, yaml, env, self, file, ShapeType(shape), cfg)
     IN /\ cfg' = r.val
        /\ call' = [op |-> "LoadFile", self |-> self, prefix |-> <<>>,
                    type |-> "", err |-> r.err, pre |-> cfg]
  /\ prev' = call
  /\ UNCHANGED <<regs, yaml, env, shape, nops, conv>>

LoadEnv(self, prefix) ==
  /\ ~Crashed
  /\ call.op = "none"
  /\ LET r == LoadEnvOf(regs, env, self, prefix, ShapeType(shape), cfg)
     IN /\ cfg' = r.val
        /\ call' = [op |-> "LoadEnv", self |-> self, prefix |-> prefix,
                    type |-> "", err |-> r.err, pre |-> cfg]
  /\ prev' = call
  /\ UNCHANGED <<regs, yaml, env, shape, nops, conv>>

LoadFlags(self) ==
  /\ ~Crashed
  /\ call.op \in {"none", "LoadEnv"}
  /\ LET r == LoadFlagsOf(regs, self, ShapeType(shape), cfg)
     IN /\ cfg' = r.val
        /\ call' = [op |-> "LoadFlags", self |-> self, prefix |-> <<>>,
                    type |-> "", err |-> r.err, pre |-> cfg]
  /\ prev' = call
  /\ UNCHANGED <<regs, yaml, env, shape, nops, conv>>

Next ==
  \/ \E self \in Insts, prefix \in Prefixes : SetEnvPrefix(self, prefix)
  \/ \E self \in Insts, k \in AliasKeys, a \in AliasNames : BindEnvAlias(self, k, <<a>>)
  \/ \E self \in Insts, expand \in BOOLEAN : SetExpandEnv(self, expand)
  \/ \E self \in Insts, p \in FlagPaths, f \in FlagPool : BindFlag(self, p, f)
  \/ \E t \in TaurusArgs, T \in CustomTypes : RegisterUnmarshaler(t, T)
  \/ \E t \in TaurusArgs : RegisterMarshaler(t, "Level")
  \/ \E self \in Insts, doc \in DocsOf(shape) : Load(self, doc)
  \/ \E self \in Insts, file \in FilesOf(shape) : LoadFile(self, file)
  \/ \E self \in Insts, prefix \in Prefixes : LoadEnv(self, prefix)
  \/ \E self \in Insts : LoadFlags(self)

Spec == Init /\ [][Next]_vars

(***************************************************************************)
(* The conversion specification: setField, with nothing registered, on one *)
(* field of each type and every text of at most MaxTextLen characters.     *)
(***************************************************************************)
Alphabet == {"0", "1", "3", "-", "+", "t", "x", ".", "e", "_"}

\* longer texts: the special floats, hexadecimal floats, and numbers at the
\* ends of the range of a float64 and of a float32
SampleTexts ==
  {<<"I", "n", "f">>, <<"-", "i", "n", "f">>, <<"N", "a", "N">>,
   <<"+", "n", "a", "n">>, <<"i", "n", "f", "i", "n", "i", "t", "y">>,
   <<"i", "n", "f", "i">>,
   <<"0", "x", "1", "p", "4">>, <<"0", "X", "1", ".", "8", "P", "-", "1">>,
   <<"0", "x", "f", "f">>, <<"0", "x", "_", "1", "p", "0">>,
   <<"0", "x", "1", "p", "1", "0", "2", "4">>,
   <<"0", "x", "1", "p", "1", "2", "8">>,
   <<"1", "e", "3", "0", "8">>, <<"2", "e", "3", "0", "8">>,
   <<"-", "1", "e", "3", "0", "9">>, <<"3", "e", "-", "3", "2", "4">>,
   <<"2", "e", "-", "3", "2", "4">>, <<"1", "e", "-", "4", "0", "0">>,
   <<"3", ".", "4", "e", "3", "8">>, <<"3", ".", "5", "e", "3", "8">>,
   <<"1", "e", "-", "4", "6">>, <<"1", "_", "0", ".", "5">>,
   <<"1", ".", "5", "E", "+", "2">>, <<"t", "r", "u", "e">>,
   <<"F", "A", "L", "S", "E">>}

Texts == UNION {[1..n -> Alphabet] : n \in 0..MaxTextLen} \cup SampleTexts

ConvTypes == {TString, TInt, TInt8, TInt16, TInt32, TInt64, TUint, TUint8,
              TUint16, TUint32, TUint64, TFloat32, TFloat64, TBool, TFunc, TLevel}

InitConv ==
  /\ regs = [i \in Insts |-> New]
  /\ yaml = [marshalers |-> {}, unmarshalers |-> {}]
  /\ env = EnvC6
  /\ shape = "Int"
  /\ cfg = Default(TInt)
  /\ call = NoCall(Default(TInt))
  /\ prev = NoCall(Default(TInt))
  /\ nops = 0
  /\ \E ty \in ConvTypes, text \in Texts :
       conv = [NoConv EXCEPT !.type = ty, !.text = text, !.val = Default(ty)]

Convert ==
  /\ ~conv.done
  /\ LET s == setField(regs["default"], conv.type, conv.val, conv.text)
     IN conv' = [conv EXCEPT !.done = TRUE, !.ok = s.ok, !.val = s.val,
                             !.cause = s.cause]
  /\ UNCHANGED <<regs, yaml, env, shape, cfg, call, prev, nops>>

NextConv == Convert

SpecConv == InitConv /\ [][NextConv]_vars

(***************************************************************************)
(* The record as the properties see it: the fields of a type by their      *)
(* index paths, in declaration order, depth first.                         *)
(***************************************************************************)
RECURSIVE PathsFrom(_, _, _, _)
\* hidden: also the paths through and to unexported fields
\* nodes: also the struct-typed fields themselves
PathsFrom(ty, i, hidden, nodes) ==
  IF i > Len(ty.fields) THEN <<>>
  ELSE LET f == ty.fields[i]
           sub == PathsFrom(f.type, 1, hidden, nodes)
           below == [j \in 1..Len(sub) |-> <<i>> \o sub[j]]
           here == IF ~f.exported /\ ~hidden THEN <<>>
                   ELSE IF f.type.kind = "struct"
                   THEN (IF nodes THEN << <<i>> >> ELSE <<>>) \o below
                   ELSE << <<i>> >>
       IN here \o PathsFrom(ty, i + 1, hidden, nodes)

\* the settable leaves, in traversal order
Leaves(ty) == IF ty.kind = "struct" THEN PathsFrom(ty, 1, FALSE, FALSE) ELSE <<>>

\* every scalar field, settable or not
AllLeaves(ty) == IF ty.kind = "struct" THEN PathsFrom(ty, 1, TRUE, FALSE) ELSE <<>>

\* every field reached through exported fields, struct-typed ones included
Fields(ty) == IF ty.kind = "struct" THEN PathsFrom(ty, 1, FALSE, TRUE) ELSE <<>>

RECURSIVE FieldAt(_, _)
FieldAt(ty, p) ==
  IF Len(p) = 1 THEN ty.fields[p[1]] ELSE FieldAt(ty.fields[p[1]].type, Tail(p))

RECURSIVE ValAt(_, _)
ValAt(val, p) == IF p = <<>> THEN val ELSE ValAt(val[p[1]], Tail(p))

RECURSIVE EnvKeyAt(_, _, _)
EnvKeyAt(prefix, ty, p) ==
  IF Len(p) = 1 THEN EnvKey(prefix, ty.fields[p[1]])
  ELSE EnvKeyAt(EnvKey(prefix, ty.fields[p[1]]), ty.fields[p[1]].type, Tail(p))

RECURSIVE FlagPathAt(_, _, _)
FlagPathAt(prefix, ty, p) ==
  IF Len(p) = 1 THEN FieldPath(prefix, ty.fields[p[1]])
  ELSE FlagPathAt(FieldPath(prefix, ty.fields[p[1]]), ty.fields[p[1]].type, Tail(p))

\* whether an unexported field lies on the path
RECURSIVE Unexported(_, _)
Unexported(ty, p) ==
  \/ ~ty.fields[p[1]].exported
  \/ Len(p) > 1 /\ Unexported(ty.fields[p[1]].type, Tail(p))

RecType == ShapeType(shape)

Binders == {"LoadEnv", "LoadFlags"}

\* the value instance i finds in the environment for the leaf at p, when
\* the record is bound under prefix: its own key first, then i's aliases
EnvSource(i, prefix, p) == ResolveEnv(env, regs[i], EnvKeyAt(prefix, RecType, p))

\* the flag instance i has bound to the leaf at p
FlagSource(i, p) == FlagOf(regs[i], FlagPathAt(<<>>, RecType, p))

\* setField by instance i on the leaf at p holding old
Converted(i, p, old, text) == setField(regs[i], FieldAt(RecType, p).type, old, text)

(***************************************************************************)
(* Properties.                                                             *)
(***************************************************************************)

\* C3: LoadFlags leaves every scalar field alone whose flag path has no
\* bound flag or a flag with Changed = false, whatever value that flag
\* carries; and when it returns no error every settable leaf whose bound
\* flag has Changed = true holds the conversion of that flag's string value.
C3_FlagsOnlyWhenChanged ==
  call.op = "LoadFlags" =>
    /\ \A k \in 1..Len(AllLeaves(RecType)) :
         LET p == AllLeaves(RecType)[k]
             fl == FlagSource(call.self, p)
         IN ~(fl.bound /\ fl.changed) => ValAt(cfg, p) = ValAt(call.pre, p)
    /\ call.err.kind = "nil" =>
         \A k \in 1..Len(Leaves(RecType)) :
           LET p == Leaves(RecType)[k]
               fl == FlagSource(call.self, p)
           IN (fl.bound /\ fl.changed) =>
                ValAt(cfg, p) = Converted(call.self, p, ValAt(call.pre, p), fl.value).val

\* a LoadFlags that returned no error, with one leaf bound to an unchanged
\* flag of non-empty value and left as it was, and another assigned from a
\* changed flag
C3_Witness ==
  /\ call.op = "LoadFlags"
  /\ call.err.kind = "nil"
  /\ \E k, l \in 1..Len(Leaves(RecType)) :
       LET p == Leaves(RecType)[k]
           q == Leaves(RecType)[l]
           fp == FlagSource(call.self, p)
           fq == FlagSource(call.self, q)
       IN /\ fp.bound /\ ~fp.changed /\ fp.value # <<>>
          /\ ValAt(cfg, p) = ValAt(call.pre, p)
          /\ fq.bound /\ fq.changed
          /\ ValAt(cfg, q) # ValAt(call.pre, q)

\* the instance whose registry a binder call resolves the leaf at p against:
\* the receiver, except that LoadEnv hands the fields of a nested struct to
\* the receiver of its recursive call
Resolver(c, p) ==
  IF c.op = "LoadEnv" /\ Len(p) > 1 THEN NestedEnvReceiver(c.self) ELSE c.self

\* what binder call c finds for the leaf at p: an environment value under
\* the leaf's key or an alias, or the value of a bound, changed flag
Source(c, p) ==
  IF c.op = "LoadEnv" THEN EnvSource(Resolver(c, p), c.prefix, p)
  ELSE LET fl == FlagSource(c.self, p)
       IN [exists |-> fl.bound /\ fl.changed, val |-> fl.value,
           key |-> FlagPathAt(<<>>, RecType, p)]

\* the conversion of what call c finds for the leaf at p
Conversion(c, p) == Converted(Resolver(c, p), p, ValAt(c.pre, p), Source(c, p).val)

\* C5: when the conversion of a value found for some leaf fails during
\* LoadEnv or LoadFlags, the call returns an error for the first such leaf
\* in depth-first declaration order and stops there: every earlier leaf
\* holds what was assigned to it (or its old value when nothing was found
\* for it), and every later leaf, at any depth, is as it was before the call.
C5_AbortKeepsEarlier ==
  (call.op \in Binders /\ call.err.kind # "panic") =>
    LET leaves == Leaves(RecType)
        failing == {k \in 1..Len(leaves) :
                      Source(call, leaves[k]).exists /\ ~Conversion(call, leaves[k]).ok}
    IN failing # {} =>
         LET f == CHOOSE k \in failing : \A j \in failing : k <= j
         IN /\ call.err = Err(Source(call, leaves[f]).key, Conversion(call, leaves[f]).cause)
            /\ \A j \in 1..(f - 1) :
                 ValAt(cfg, leaves[j]) =
                   IF Source(call, leaves[j]).exists
                   THEN Conversion(call, leaves[j]).val
                   ELSE ValAt(call.pre, leaves[j])
            /\ \A j \in (f + 1)..Len(leaves) :
                 ValAt(cfg, leaves[j]) = ValAt(call.pre, leaves[j])

\* a LoadEnv stopped by a func-typed field inside a nested struct, after
\* assigning an earlier leaf, with a value waiting for a later leaf of the
\* nested struct and for a later leaf of the outer one, both left alone
C5_Witness ==
  /\ call.op = "LoadEnv"
  /\ call.err.kind = "error"
  /\ call.err.cause = "unsupported field type"
  /\ \E a, b, c \in 1..Len(Leaves(RecType)) :
       LET pa == Leaves(RecType)[a]
           pb == Leaves(RecType)[b]
           pc == Leaves(RecType)[c]
       IN /\ a < b /\ b < c
          /\ ValAt(cfg, pa) # ValAt(call.pre, pa)
          /\ Len(pb) = 2 /\ Source(call, pb).exists /\ Conversion(call, pb).ok
          /\ ValAt(cfg, pb) = ValAt(call.pre, pb)
          /\ Len(pc) = 1 /\ Source(call, pc).exists /\ Conversion(call, pc).ok
          /\ ValAt(cfg, pc) = ValAt(call.pre, pc)
          /\ Conversion(call, pb).val # ValAt(call.pre, pb)
          /\ Conversion(call, pc).val # ValAt(call.pre, pc)

\* the first binder call of the scenario of C6: the package-level
\* LoadEnv("APP", &record) on {Server{Port int; Host string}}, the
\* process-wide prefix being APP, with APP_SERVER_PORT=8080 and
\* APP_SERVICE_HOST=example.com set and APP_SERVER_HOST unset
C6_Scenario ==
  /\ shape = "Config"
  /\ env = EnvC6
  /\ call.op = "LoadEnv"
  /\ call.self = "default"
  /\ call.prefix = AppPrefix
  /\ prev.op = "none"
  /\ regs["default"].envPrefix = AppPrefix

\* Port = 8080 and Host = "example.com", no error
C6_Bound ==
  /\ call.err = NoErr
  /\ cfg = << <<8080, <<"example", ".", "com">> >> >>

\* C6 as claimed: in that scenario with the alias registered by
\* BindEnvAlias("HOST", "SERVICE_HOST"), LoadEnv returns no error and leaves
\* Port = 8080 and Host = "example.com".
C6_AliasUnderFieldName ==
  (/\ C6_Scenario
   /\ regs["default"].envAliases[<<"HOST">>] = << <<"SERVICE", "_", "HOST">> >>
   /\ regs["default"].envAliases[<<"SERVER", "_", "HOST">>] = <<>>)
  => C6_Bound

\* C6 as amended: in that scenario with the alias registered under the
\* leaf's whole key less the prefix, BindEnvAlias("SERVER_HOST",
\* "SERVICE_HOST"), LoadEnv returns no error and leaves Port = 8080 and
\* Host = "example.com".
C6_AliasUnderStrippedKey ==
  (/\ C6_Scenario
   /\ regs["default"].envAliases[<<"SERVER", "_", "HOST">>] = << <<"SERVICE", "_", "HOST">> >>)
  => C6_Bound

\* the amended scenario, run
C6_Witness ==
  /\ C6_Scenario
  /\ regs["default"].envAliases[<<"SERVER", "_", "HOST">>] = << <<"SERVICE", "_", "HOST">> >>
  /\ call.pre = Default(ConfigT)
  /\ C6_Bound

\* the leaf at p is converted by kind: no converter is registered for its
\* type with instance i and the type has no UnmarshalText
BuiltIn(i, p) ==
  LET ty == FieldAt(RecType, p).type
  IN ty.name \notin regs[i].customUnmarshalers /\ ~ty.native

\* what instance i, with its own prefix and alias table, is to find for the
\* leaf at p: the value under the leaf's key when that is set, else the
\* value under the first of the key's aliases, in the order registered,
\* whose re-prefixed key is set
Precedence(i, prefix, p) ==
  LET key == EnvKeyAt(prefix, RecType, p)
      r == regs[i]
      aliases == AliasesOf(r, TrimPrefix(key, r.envPrefix \o <<"_">>))
      set == {j \in 1..Len(aliases) : (r.envPrefix \o <<"_">> \o aliases[j]) \in DOMAIN env}
      first == CHOOSE j \in set : \A l \in set : j <= l
  IN IF key \in DOMAIN env THEN [exists |-> TRUE, val |-> env[key]]
     ELSE IF set # {}
     THEN [exists |-> TRUE, val |-> env[r.envPrefix \o <<"_">> \o aliases[first]]]
     ELSE [exists |-> FALSE, val |-> <<>>]

\* C1: after LoadEnv and then LoadFlags by the same binder on the same
\* struct record, all values found being convertible, both calls return no error
\* and every settable leaf holds the conversion of its changed flag's
\* value, else the conversion of the value the environment has for its key
\* or an alias, else the value it had before the two calls.
C1_LaterBinderWins ==
  LET i == call.self
      leaves == Leaves(RecType)
      Old(p) == ValAt(prev.pre, p)
      Fl(p) == FlagSource(i, p)
      Ev(p) == Precedence(i, prev.prefix, p)
  IN (/\ RecType.kind = "struct"
      /\ prev.op = "LoadEnv"
      /\ call.op = "LoadFlags"
      /\ prev.self = call.self
      /\ \A k \in 1..Len(leaves) :
           LET p == leaves[k]
           IN /\ (Fl(p).bound /\ Fl(p).changed) => Converted(i, p, Old(p), Fl(p).value).ok
              /\ Ev(p).exists => Converted(i, p, Old(p), Ev(p).val).ok)
     => /\ prev.err = NoErr
        /\ call.err = NoErr
        /\ \A k \in 1..Len(leaves) :
             LET p == leaves[k]
             IN ValAt(cfg, p) =
                  IF Fl(p).bound /\ Fl(p).changed
                  THEN Converted(i, p, Old(p), Fl(p).value).val
                  ELSE IF Ev(p).exists THEN Converted(i, p, Old(p), Ev(p).val).val
                  ELSE Old(p)

\* C2: after a LoadEnv that returned no error, every leaf converted by kind
\* holds the conversion of the value under its own key when that key is
\* set, whatever aliases are set; else the conversion of the value of the
\* first alias registered with the binder whose re-prefixed key is set;
\* else the value it had before.
C2_PrimaryThenAliasesInOrder ==
  (call.op = "LoadEnv" /\ call.err = NoErr) =>
    \A k \in 1..Len(Leaves(RecType)) :
      LET p == Leaves(RecType)[k]
          found == Precedence(call.self, call.prefix, p)
      IN BuiltIn(call.self, p) =>
           ValAt(cfg, p) =
             IF found.exists
             THEN Converted(call.self, p, ValAt(call.pre, p), found.val).val
             ELSE ValAt(call.pre, p)

\* the text parsed in the field's own type: strconv's parse at the bit
\* width of the type
OwnTypeParse(ty, text) ==
  CASE ty.kind = "int" ->
         LET n == ParseInt(text)
         IN [ok |-> /\ n.ok
                    /\ ty.bits < 32 =>
                         /\ 0 - Pow2(ty.bits - 1) <= n.val
                         /\ n.val < Pow2(ty.bits - 1),
             val |-> n.val, cause |-> "invalid int"]
    [] ty.kind = "uint" ->
         LET n == ParseUint(text)
         IN [ok |-> n.ok /\ (ty.bits < 32 => n.val < Pow2(ty.bits)),
             val |-> n.val, cause |-> "invalid uint"]
    [] ty.kind = "bool" ->
         LET b == ParseBool(text)
         IN [ok |-> b.ok, val |-> b.val, cause |-> "invalid bool"]
    [] OTHER -> [ok |-> TRUE, val |-> text, cause |-> ""]

\* C4: setField on a field of a built-in integer width, a bool or a string
\* stores exactly the value of the text parsed in the field's own type, and
\* for a text that is no value of that type (a number outside the width
\* included) stores nothing and returns the error naming the kind.
C4_ParsedInOwnType ==
  (conv.done /\ conv.type.kind \in {"int", "uint", "bool", "string"} /\ ~conv.type.native) =>
    LET own == OwnTypeParse(conv.type, conv.text)
    IN IF own.ok THEN conv.ok /\ conv.val = own.val
       ELSE ~conv.ok /\ conv.cause = own.cause /\ conv.val = Default(conv.type)

\* C7: a binder call does not panic, and leaves every unexported field, and
\* every field beneath one, as it was.
C7_UnexportedSkipped ==
  call.op \in Binders =>
    /\ call.err.kind # "panic"
    /\ \A k \in 1..Len(AllLeaves(RecType)) :
         LET p == AllLeaves(RecType)[k]
         IN Unexported(RecType, p) => ValAt(cfg, p) = ValAt(call.pre, p)

\* C8: RegisterMarshaler and RegisterUnmarshaler given a nil *Taurus complete
\* without failure and leave the type registered with the default instance.
C8_NilMeansDefault ==
  call.self = "nil" =>
    /\ call.err = NoErr
    /\ call.op = "RegisterUnmarshaler" => call.type \in regs["default"].customUnmarshalers
    /\ call.op = "RegisterMarshaler" => call.type \in regs["default"].customMarshalers

\* C9, for the package-level binders: after a call that returned no error,
\* every field, struct-typed or not, whose type has a custom unmarshaler
\* registered and for whose key or path a value was found holds what that
\* unmarshaler decodes the value to.
C9_CustomUnmarshalerFirst ==
  (call.op \in Binders /\ call.self = "default" /\ call.err = NoErr) =>
    \A k \in 1..Len(Fields(RecType)) :
      LET p == Fields(RecType)[k]
          ty == FieldAt(RecType, p).type
          fl == FlagSource("default", p)
          found == IF call.op = "LoadEnv" THEN Precedence("default", call.prefix, p)
                   ELSE [exists |-> fl.bound /\ fl.changed, val |-> fl.value]
          decoded == CustomUnmarshal(ty, ValAt(call.pre, p), found.val)
      IN (ty.name \in regs["default"].customUnmarshalers /\ found.exists /\ decoded.ok)
           => ValAt(cfg, p) = decoded.val

\* C10: LoadEnv on the instance made by New() gives what it gives when the
\* default instance holds the same prefix, aliases and unmarshalers as that
\* instance: nothing of the default instance's own state decides a leaf.
C10_InstanceUsesOwnState ==
  (call.op = "LoadEnv" /\ call.self = "inst") =>
    LET own == LoadEnvOf([i \in Insts |-> regs["inst"]], env, "inst", call.prefix,
                         RecType, call.pre)
    IN cfg = own.val /\ call.err = own.err

====
